---- MODULE Spec2Model ----
(***************************************************************************)
(* The string memory inspector of the Introspective String Laboratory.     *)
(*                                                                         *)
(* The model holds the values the demonstrations create (String, &str,     *)
(* Box<str> and Cow<str> bindings), the heap blocks behind them, and the   *)
(* two snapshots and the report of the last compare_memory_layout call.    *)
(* Every step is one statement group of a demonstration: capture, operate, *)
(* capture again, compare.  Spec runs these statements in any order,       *)
(* SpecHeld runs them next to a snapshot the caller keeps, SpecCompare     *)
(* runs the comparison on any pair of snapshots, and SpecMain runs main    *)
(* in program order with the tasks it spawns.                              *)
(*                                                                         *)
(* Addresses are tagged pairs <<region, index>>; the code only compares    *)
(* them for equality (inspector.rs:232).                                   *)
(***************************************************************************)
EXTENDS Integers, Sequences, FiniteSets, TLC

VARIABLES heap, vals, info1, info2, report, lastOp, held, pc, tasks,
          input, results, manipulator, out, args

vars == <<heap, vals, info1, info2, report, lastOp, held, pc, tasks,
          input, results, manipulator, out, args>>

\* What a demonstration statement leaves alone: the snapshot a caller keeps
\* in a local of its own, the program position and spawned tasks of main,
\* the input and results of the asynchronous demonstration, the
\* StringManipulator, the texts it is given and what it or the
\* presentation layer last produced.
others == <<held, pc, tasks, input, results, manipulator, out, args>>

(***************************************************************************)
(* Bounds of the model.                                                    *)
(***************************************************************************)
\* Longest string content the model builds, in bytes.
MaxLen == 9
\* Number of heap addresses the allocator can hand out.
NumHeap == 2

\* The bindings of a demonstration: the value under study and the binding
\* it is moved or cloned into (original/moved/cloned, cow_borrowed/cow_owned).
Slots == {"first", "second"}
HeapAddrs == {<<"heap", i>> : i \in 1..NumHeap}

(***************************************************************************)
(* String literals of the program image.  Literal i lives at the static    *)
(* address <<"static", i>>.                                                *)
(***************************************************************************)
Literals == << <<>>, <<82, 117, 115, 116>>, <<33, 33, 33, 33, 33>> >>

LitIds == 1..Len(Literals)
NonEmptyLitIds == {i \in LitIds : Len(Literals[i]) > 0}
StaticAddr(i) == <<"static", i>>

\* Capacities the demonstrations reserve up front.
ReservedCaps == {0, 8}

\* The address an empty Vec<u8> reports: NonNull::dangling(), no allocation.
Dangling == <<"dangling", 1>>

\* Smallest non-zero capacity a growing Vec<u8> takes.
MIN_NON_ZERO_CAP == 8

NoBlock == [size |-> 0, data |-> <<>>, used |-> FALSE]
NoVal == [kind |-> "None"]
NoInfo == [data_ptr |-> Dangling, object_ptr |-> Dangling, length |-> 0,
           capacity |-> 0, is_heap_allocated |-> FALSE, description |-> "none"]
NoReport == [made |-> FALSE]
NoOp == [kind |-> "init", src |-> "first", dst |-> "first", arg |-> 0,
         old |-> <<>>, live |-> 0]

\* The three tasks demo_async_operations spawns, and a task not yet spawned.
TaskIds == {"task1", "task2", "task3"}
NoTask == [state |-> "unspawned", input |-> <<>>, result |-> <<>>,
           completed |-> 0]
\* Before `let input` and before `let results` of the asynchronous
\* demonstration.
NoInput == <<>>
NoResults == <<>>
\* StringManipulator::new()
StringManipulator_new == [operations_count |-> 0]
\* Nothing rendered or returned by the presentation layer yet.
NoOut == [kind |-> "none"]
\* No texts chosen for the manipulator.
NoArgs == [s1 |-> <<>>, s2 |-> <<>>]

Max(a, b) == IF a >= b THEN a ELSE b

FreeAddrs == {a \in HeapAddrs : ~heap[a].used}
LiveBlocks == {a \in HeapAddrs : heap[a].used}
EmptySlots == {s \in Slots : vals[s].kind = "None"}
StackAddr(s) == <<"stack", s>>

\* The bytes a data pointer of the given length refers to, in heap h.
BytesIn(h, ptr, len) ==
    IF ptr[1] = "heap" THEN SubSeq(h[ptr].data, 1, len)
    ELSE IF ptr[1] = "static" THEN SubSeq(Literals[ptr[2]], 1, len)
    ELSE <<>>

\* The contents of a String or Cow<str> value.
Contents(v) == IF v.kind = "None" THEN <<>> ELSE BytesIn(heap, v.ptr, v.len)

(***************************************************************************)
(* The growable string of the standard library, as the program uses it.    *)
(* Each operation takes the heap h, its operands and the address a the     *)
(* allocator answers with, and yields the new heap and the new value.      *)
(***************************************************************************)
\* Where the allocator may place a fresh block of c bytes (none for c = 0).
AllocTargets(h, c) ==
    IF c = 0 THEN {Dangling} ELSE {a \in HeapAddrs : ~h[a].used}

\* String::with_capacity(c) followed by copying bytes in: String::from,
\* to_string, to_owned and clone all allocate exactly what they hold.
alloc_string(h, bytes, c, a) ==
    IF c = 0
    THEN [heap |-> h,
          val |-> [kind |-> "String", ptr |-> Dangling, len |-> 0, cap |-> 0]]
    ELSE [heap |-> [h EXCEPT ![a] = [size |-> c, data |-> bytes, used |-> TRUE]],
          val |-> [kind |-> "String", ptr |-> a, len |-> Len(bytes), cap |-> c]]

\* A growth test that is off by one: filling the buffer exactly grows it.
needs_to_grow_when_full(cap, len, additional) == additional >= cap - len

\* RawVec::needs_to_grow
needs_to_grow(cap, len, additional) == additional > cap - len

\* A growth that doubles and never looks at what the append needs.
grow_amortized_doubling(cap, len, additional) ==
    Max(MIN_NON_ZERO_CAP, cap * 2)

\* RawVec::grow_amortized: the capacity after a growing append.
grow_amortized(cap, len, additional) ==
    Max(MIN_NON_ZERO_CAP, Max(cap * 2, len + additional))

\* Where the allocator may place the grown buffer of v: a fresh block, or,
\* when v already has a block, that same block extended in place.
GrowTargets(h, v) ==
    {a \in HeapAddrs : ~h[a].used} \cup (IF v.cap > 0 THEN {v.ptr} ELSE {})

\* The heap after the buffer of v has grown to new_cap at address a and
\* holds data: the old block is released when the buffer moved.
grown_heap(h, v, a, new_cap, data) ==
    LET h1 == IF v.cap > 0 /\ a # v.ptr THEN [h EXCEPT ![v.ptr] = NoBlock] ELSE h
    IN  [h1 EXCEPT ![a] = [size |-> new_cap, data |-> data, used |-> TRUE]]

\* String::push_str
push_str(h, v, bytes, a) ==
    IF ~needs_to_grow(v.cap, v.len, Len(bytes))
    THEN [heap |-> [h EXCEPT ![v.ptr].data = BytesIn(h, v.ptr, v.len) \o bytes],
          val |-> [v EXCEPT !.len = v.len + Len(bytes)]]
    ELSE LET new_cap == grow_amortized(v.cap, v.len, Len(bytes))
             data == BytesIn(h, v.ptr, v.len) \o bytes
         IN  [heap |-> grown_heap(h, v, a, new_cap, data),
              val |-> [v EXCEPT !.ptr = a, !.len = Len(data), !.cap = new_cap]]

\* A move that copies the bytes into a block of its own.
move_string_copying(h, v, a) ==
    IF v.len = 0 THEN [heap |-> h, val |-> v]
    ELSE LET f == CHOOSE x \in HeapAddrs : ~h[x].used
         IN  [heap |-> [h EXCEPT ![f] = [size |-> v.len,
                                         data |-> BytesIn(h, v.ptr, v.len),
                                         used |-> TRUE]],
              val |-> [v EXCEPT !.ptr = f, !.cap = v.len]]

\* `let moved = original;`: the three words of the String are copied, the
\* heap block is untouched.
move_string(h, v, a) == [heap |-> h, val |-> v]

\* A clone that shares the buffer of the original.
clone_string_shallow(h, v, a) == [heap |-> h, val |-> v]

\* String::clone
clone_string(h, v, a) == alloc_string(h, BytesIn(h, v.ptr, v.len), v.len, a)

\* Cow::Borrowed(input)
cow_borrowed(i) ==
    [kind |-> "CowBorrowed", ptr |-> StaticAddr(i), len |-> Len(Literals[i])]

\* A clone that always takes ownership of a copy of the bytes.
cow_clone_eager(h, c, a) ==
    IF c.len = 0
    THEN [heap |-> h,
          val |-> [kind |-> "CowOwned", ptr |-> Dangling, len |-> 0, cap |-> 0]]
    ELSE LET f == CHOOSE x \in HeapAddrs : ~h[x].used
         IN  [heap |-> [h EXCEPT ![f] = [size |-> c.len,
                                         data |-> BytesIn(h, c.ptr, c.len),
                                         used |-> TRUE]],
              val |-> [kind |-> "CowOwned", ptr |-> f, len |-> c.len,
                       cap |-> c.len]]

\* Cow::clone: a borrowed wrapper copies the reference, an owned one clones
\* its String.
cow_clone(h, c, a) ==
    IF c.kind = "CowBorrowed"
    THEN [heap |-> h, val |-> c]
    ELSE LET r == clone_string(h, c, a)
         IN  [heap |-> r.heap, val |-> [r.val EXCEPT !.kind = "CowOwned"]]

\* A conversion that copies the view and leaves the wrapper marked borrowed.
to_mut_unmarked(h, c, a) ==
    IF c.kind = "CowBorrowed"
    THEN LET r == alloc_string(h, BytesIn(h, c.ptr, c.len), c.len, a)
         IN  [heap |-> r.heap, val |-> [r.val EXCEPT !.kind = "CowBorrowed"]]
    ELSE [heap |-> h, val |-> c]

\* Cow::to_mut: a borrowed wrapper becomes owned by copying the view.
to_mut(h, c, a) ==
    IF c.kind = "CowBorrowed"
    THEN LET r == alloc_string(h, BytesIn(h, c.ptr, c.len), c.len, a)
         IN  [heap |-> r.heap, val |-> [r.val EXCEPT !.kind = "CowOwned"]]
    ELSE [heap |-> h, val |-> c]

\* `let literal: &'static str = "Rust";`: a view of all of literal i.
str_literal(i) ==
    [kind |-> "Str", ptr |-> StaticAddr(i), len |-> Len(Literals[i])]

\* String::as_str / deref: a view of all of a String's contents.
as_str(v) == [kind |-> "Str", ptr |-> v.ptr, len |-> v.len]

\* `let boxed: Box<str> = literal.into();`: the bytes are copied into a
\* block of exactly their length; an empty box allocates nothing.
box_from(h, bytes, a) ==
    IF Len(bytes) = 0
    THEN [heap |-> h, val |-> [kind |-> "BoxStr", ptr |-> Dangling, len |-> 0]]
    ELSE [heap |-> [h EXCEPT ![a] = [size |-> Len(bytes), data |-> bytes,
                                     used |-> TRUE]],
          val |-> [kind |-> "BoxStr", ptr |-> a, len |-> Len(bytes)]]

\* The bytes a value owns on the heap (a view and a borrowed wrapper own
\* none).
OwnedBytes(v) ==
    IF v.kind \in {"String", "CowOwned"} THEN v.cap
    ELSE IF v.kind = "BoxStr" THEN v.len
    ELSE 0

\* Dropping a value releases the block it owns.
drop_value(h, v) ==
    IF OwnedBytes(v) > 0
    THEN [h EXCEPT ![v.ptr] = NoBlock]
    ELSE h

(***************************************************************************)
(* Snapshot capture.                                                       *)
(***************************************************************************)
inspect_string(s, obj, description) ==
    [data_ptr |-> s.ptr,
     object_ptr |-> obj,
     length |-> s.len,
     capacity |-> s.cap,
     is_heap_allocated |-> TRUE,
     description |-> description]

\* Option<&'static str>: None, or Some(view of a literal).
StaticRefs == {NoVal} \cup {str_literal(j) : j \in LitIds}

\* std::ptr::eq on two &str compares the fat pointers: address and length.
is_static_str(s, static_ref) ==
    IF static_ref.kind = "None"
    THEN FALSE
    ELSE s.ptr = static_ref.ptr /\ s.len = static_ref.len

\* inspect_str takes the view and the label only and asks is_static_str
\* with no reference; the object pointer is the view's data pointer.
inspect_str(s, description) ==
    LET is_static == is_static_str(s, NoVal)
    IN  [data_ptr |-> s.ptr,
         object_ptr |-> s.ptr,
         length |-> s.len,
         capacity |-> s.len,
         is_heap_allocated |-> ~is_static,
         description |-> IF is_static THEN "Location: Static (Binary)"
                         ELSE "Location: Dynamic"]

\* An inspection that reports the block size a box would round up to.
inspect_boxed_str_rounded(s, description) ==
    [data_ptr |-> s.ptr,
     object_ptr |-> s.ptr,
     length |-> s.len,
     capacity |-> Max(MIN_NON_ZERO_CAP, s.len),
     is_heap_allocated |-> TRUE,
     description |-> "Type: Box<str> (immutable)"]

inspect_boxed_str(s, description) ==
    [data_ptr |-> s.ptr,
     object_ptr |-> s.ptr,
     length |-> s.len,
     capacity |-> s.len,
     is_heap_allocated |-> TRUE,
     description |-> "Type: Box<str> (immutable)"]

\* An inspection that takes every wrapper for a borrowed one.
inspect_cow_as_borrowed(s, obj, description) ==
    [data_ptr |-> s.ptr,
     object_ptr |-> obj,
     length |-> s.len,
     capacity |-> s.len,
     is_heap_allocated |-> FALSE,
     description |-> "Cow: Borrowed"]

inspect_cow(s, obj, description) ==
    LET is_owned == s.kind = "CowOwned"
        capacity == IF is_owned THEN s.cap ELSE s.len
    IN  [data_ptr |-> s.ptr,
         object_ptr |-> obj,
         length |-> s.len,
         capacity |-> capacity,
         is_heap_allocated |-> is_owned,
         description |-> IF is_owned THEN "Cow: Owned" ELSE "Cow: Borrowed"]

\* The storage line a snapshot is displayed with: "Heap Allocated" or
\* "Static Memory".
StorageClass(i) == IF i.is_heap_allocated THEN "Heap" ELSE "Static"

\* The capture function the program calls for each kind of value.
inspect(v, obj, description) ==
    CASE v.kind = "String" -> inspect_string(v, obj, description)
      [] v.kind = "Str" -> inspect_str(v, description)
      [] v.kind = "BoxStr" -> inspect_boxed_str(v, description)
      [] OTHER -> inspect_cow(v, obj, description)

(***************************************************************************)
(* compare_memory_layout prints; the report is what it printed: the arrow  *)
(* line, the pointer verdict, the capacity line and the length line.       *)
(***************************************************************************)
\* A location test that also looks at the storage flag of the snapshots.
ptr_changed_or_storage(i1, i2) ==
    \/ i1.data_ptr # i2.data_ptr
    \/ i1.is_heap_allocated # i2.is_heap_allocated

\* let ptr_changed = info1.data_ptr != info2.data_ptr;
ptr_changed(i1, i2) == i1.data_ptr # i2.data_ptr

\* A capacity test that also fires when only the buffer moved.
capacity_changed_with_ptr(i1, i2) ==
    i1.capacity # i2.capacity \/ i1.data_ptr # i2.data_ptr

capacity_changed(i1, i2) == i1.capacity # i2.capacity

length_changed(i1, i2) == i1.length # i2.length

\* usize and i64 have the same width; the model scales it down from 64 bits.
USIZE_BITS == 6
USIZE_MAX == 2 ^ USIZE_BITS - 1
I64_MAX == 2 ^ (USIZE_BITS - 1) - 1
I64_MIN == -(2 ^ (USIZE_BITS - 1))

\* `x as i64` for a usize x: the same bits read as two's complement.
as_i64(x) == IF x > I64_MAX THEN x - 2 ^ USIZE_BITS ELSE x

\* `a - b` on i64 overflows: a build with overflow checks panics here, a
\* build without them wraps.
sub_overflows(after, before) ==
    LET d == as_i64(after) - as_i64(before)
    IN  d > I64_MAX \/ d < I64_MIN

\* `after as i64 - before as i64`, as a build without overflow checks
\* computes it.
delta_i64(after, before) ==
    LET d == as_i64(after) - as_i64(before)
    IN  ((d - I64_MIN + 2 ^ USIZE_BITS) % (2 ^ USIZE_BITS)) + I64_MIN

MovedVerdict == "Data was MOVED - new heap allocation!"
InPlaceVerdict == "Modified in-place, zero-cost operation"

\* The report with the given verdict line in place of the code's.
ReportWithVerdict(i1, i2, v) ==
    [made |-> TRUE,
     arrow |-> IF ptr_changed(i1, i2) THEN "NEW ALLOCATION!" ELSE "in-place",
     pointer |-> IF ptr_changed(i1, i2) THEN "MOVED" ELSE "UNCHANGED",
     verdict |-> v,
     capacity |-> IF capacity_changed(i1, i2) THEN "CHANGED" ELSE "UNCHANGED",
     capacity_delta |-> IF capacity_changed(i1, i2)
                        THEN <<delta_i64(i2.capacity, i1.capacity)>> ELSE <<>>,
     reallocation |-> capacity_changed(i1, i2) /\ i2.capacity > i1.capacity,
     length |-> IF length_changed(i1, i2) THEN "CHANGED" ELSE "UNCHANGED",
     length_delta |-> IF length_changed(i1, i2)
                      THEN <<delta_i64(i2.length, i1.length)>> ELSE <<>>,
     overflow |-> \/ capacity_changed(i1, i2)
                     /\ sub_overflows(i2.capacity, i1.capacity)
                  \/ length_changed(i1, i2)
                     /\ sub_overflows(i2.length, i1.length)]

\* A comparison that tells an untouched pair from an in-place write.
compare_memory_layout_unchanged(i1, i2) ==
    ReportWithVerdict(i1, i2,
        IF ptr_changed(i1, i2) THEN MovedVerdict
        ELSE IF capacity_changed(i1, i2) \/ length_changed(i1, i2)
             THEN InPlaceVerdict
             ELSE "unchanged")

compare_memory_layout(i1, i2) ==
    [made |-> TRUE,
     arrow |-> IF ptr_changed(i1, i2) THEN "NEW ALLOCATION!" ELSE "in-place",
     pointer |-> IF ptr_changed(i1, i2) THEN "MOVED" ELSE "UNCHANGED",
     verdict |-> IF ptr_changed(i1, i2) THEN MovedVerdict ELSE InPlaceVerdict,
     capacity |-> IF capacity_changed(i1, i2) THEN "CHANGED" ELSE "UNCHANGED",
     capacity_delta |-> IF capacity_changed(i1, i2)
                        THEN <<delta_i64(i2.capacity, i1.capacity)>> ELSE <<>>,
     reallocation |-> capacity_changed(i1, i2) /\ i2.capacity > i1.capacity,
     length |-> IF length_changed(i1, i2) THEN "CHANGED" ELSE "UNCHANGED",
     length_delta |-> IF length_changed(i1, i2)
                      THEN <<delta_i64(i2.length, i1.length)>> ELSE <<>>,
     overflow |-> \/ capacity_changed(i1, i2)
                     /\ sub_overflows(i2.capacity, i1.capacity)
                  \/ length_changed(i1, i2)
                     /\ sub_overflows(i2.length, i1.length)]

Init ==
    /\ heap = [a \in HeapAddrs |-> NoBlock]
    /\ vals = [s \in Slots |-> NoVal]
    /\ info1 = NoInfo
    /\ info2 = NoInfo
    /\ report = NoReport
    /\ lastOp = NoOp
    /\ held = NoInfo
    /\ pc = "demos"
    /\ tasks = [t \in TaskIds |-> NoTask]
    /\ input = NoInput
    /\ results = NoResults
    /\ manipulator = StringManipulator_new
    /\ out = NoOut
    /\ args = NoArgs

(***************************************************************************)
(* The steps of the demonstrations.  A step that changes a value captures  *)
(* it before and after and hands both snapshots to compare_memory_layout;  *)
(* lastOp records which statement ran, on what, and the contents before.   *)
(***************************************************************************)
\* let original = String::from(literal); inspect_string(&original, ..)
StringFrom(s, i) ==
    /\ s \in EmptySlots
    /\ UNCHANGED others
    /\ \E a \in AllocTargets(heap, Len(Literals[i])) :
         LET r == alloc_string(heap, Literals[i], Len(Literals[i]), a)
         IN  /\ heap' = r.heap
             /\ vals' = [vals EXCEPT ![s] = r.val]
             /\ info1' = NoInfo
             /\ info2' = inspect_string(r.val, StackAddr(s), "String")
             /\ report' = NoReport
             /\ lastOp' = [kind |-> "from", src |-> s, dst |-> s, arg |-> i,
                           old |-> <<>>,
                           live |-> Cardinality(LiveBlocks)]

\* let mut s = String::with_capacity(c); inspect_string(&s, ..)
WithCapacity(s, c) ==
    /\ s \in EmptySlots
    /\ UNCHANGED others
    /\ \E a \in AllocTargets(heap, c) :
         LET r == alloc_string(heap, <<>>, c, a)
         IN  /\ heap' = r.heap
             /\ vals' = [vals EXCEPT ![s] = r.val]
             /\ info1' = NoInfo
             /\ info2' = inspect_string(r.val, StackAddr(s), "String")
             /\ report' = NoReport
             /\ lastOp' = [kind |-> "with_capacity", src |-> s, dst |-> s,
                           arg |-> c, old |-> <<>>,
                           live |-> Cardinality(LiveBlocks)]

\* inspect_string(&s, ..); s.push_str(literal); inspect_string(&s, ..);
\* compare_memory_layout(..)
PushStr(s, i) ==
    /\ vals[s].kind = "String"
    /\ UNCHANGED others
    /\ vals[s].len + Len(Literals[i]) <= MaxLen
    /\ \E a \in GrowTargets(heap, vals[s]) :
         LET r == push_str(heap, vals[s], Literals[i], a)
             before == inspect_string(vals[s], StackAddr(s), "String")
             after == inspect_string(r.val, StackAddr(s), "String")
         IN  /\ heap' = r.heap
             /\ vals' = [vals EXCEPT ![s] = r.val]
             /\ info1' = before
             /\ info2' = after
             /\ report' = compare_memory_layout(before, after)
             /\ lastOp' = [kind |-> "push_str", src |-> s, dst |-> s, arg |-> i,
                           old |-> Contents(vals[s]),
                           live |-> Cardinality(LiveBlocks)]

\* inspect_string(&original, ..); let moved = original;
\* inspect_string(&moved, ..); compare_memory_layout(..)
Move(s, d) ==
    /\ vals[s].kind = "String"
    /\ UNCHANGED others
    /\ d \in EmptySlots
    /\ LET r == move_string(heap, vals[s], Dangling)
           before == inspect_string(vals[s], StackAddr(s), "String")
           after == inspect_string(r.val, StackAddr(d), "String")
       IN  /\ heap' = r.heap
           /\ vals' = [vals EXCEPT ![d] = r.val, ![s] = NoVal]
           /\ info1' = before
           /\ info2' = after
           /\ report' = compare_memory_layout(before, after)
           /\ lastOp' = [kind |-> "move", src |-> s, dst |-> d, arg |-> 0,
                         old |-> Contents(vals[s]),
                         live |-> Cardinality(LiveBlocks)]

\* inspect_string(&moved, ..); let cloned = moved.clone();
\* inspect_string(&cloned, ..); compare_memory_layout(..)
Clone(s, d) ==
    /\ vals[s].kind = "String"
    /\ UNCHANGED others
    /\ d \in EmptySlots
    /\ \E a \in AllocTargets(heap, vals[s].len) :
         LET r == clone_string(heap, vals[s], a)
             before == inspect_string(vals[s], StackAddr(s), "String")
             after == inspect_string(r.val, StackAddr(d), "String")
         IN  /\ heap' = r.heap
             /\ vals' = [vals EXCEPT ![d] = r.val]
             /\ info1' = before
             /\ info2' = after
             /\ report' = compare_memory_layout(before, after)
             /\ lastOp' = [kind |-> "clone", src |-> s, dst |-> d, arg |-> 0,
                           old |-> Contents(vals[s]),
                           live |-> Cardinality(LiveBlocks)]

\* let cow: Cow<str> = Cow::Borrowed(literal); inspect_cow(&cow, ..)
CowBorrowed(s, i) ==
    /\ s \in EmptySlots
    /\ UNCHANGED others
    /\ heap' = heap
    /\ vals' = [vals EXCEPT ![s] = cow_borrowed(i)]
    /\ info1' = NoInfo
    /\ info2' = inspect_cow(cow_borrowed(i), StackAddr(s), "Cow")
    /\ report' = NoReport
    /\ lastOp' = [kind |-> "cow_borrowed", src |-> s, dst |-> s, arg |-> i,
                  old |-> <<>>,
                           live |-> Cardinality(LiveBlocks)]

\* inspect_cow(&cow, ..); let copy = cow.clone(); inspect_cow(&copy, ..);
\* compare_memory_layout(..)
CowClone(s, d) ==
    /\ vals[s].kind \in {"CowBorrowed", "CowOwned"}
    /\ UNCHANGED others
    /\ d \in EmptySlots
    /\ \E a \in AllocTargets(heap, IF vals[s].kind = "CowOwned"
                                   THEN vals[s].len ELSE 0) :
         LET r == cow_clone(heap, vals[s], a)
             before == inspect_cow(vals[s], StackAddr(s), "Cow")
             after == inspect_cow(r.val, StackAddr(d), "Cow")
         IN  /\ heap' = r.heap
             /\ vals' = [vals EXCEPT ![d] = r.val]
             /\ info1' = before
             /\ info2' = after
             /\ report' = compare_memory_layout(before, after)
             /\ lastOp' = [kind |-> "cow_clone", src |-> s, dst |-> d,
                           arg |-> 0, old |-> Contents(vals[s]),
                           live |-> Cardinality(LiveBlocks)]

\* A mutation that converts every wrapper that shares the mutated view.
CowMutate_shared(s, i) ==
    /\ vals[s].kind \in {"CowBorrowed", "CowOwned"}
    /\ UNCHANGED others
    /\ vals[s].len + Len(Literals[i]) <= MaxLen
    /\ \E a \in AllocTargets(heap, IF vals[s].kind = "CowBorrowed"
                                   THEN vals[s].len ELSE 0) :
         LET m == to_mut(heap, vals[s], a)
         IN  \E b \in GrowTargets(m.heap, m.val) :
               LET r == push_str(m.heap, m.val, Literals[i], b)
                   before == inspect_cow(vals[s], StackAddr(s), "Cow")
                   after == inspect_cow(r.val, StackAddr(s), "Cow")
               IN  /\ heap' = r.heap
                   /\ vals' = [x \in Slots |->
                                 IF vals[x] = vals[s] THEN r.val ELSE vals[x]]
                   /\ info1' = before
                   /\ info2' = after
                   /\ report' = compare_memory_layout(before, after)
                   /\ lastOp' = [kind |-> "cow_mutate", src |-> s, dst |-> s,
                                 arg |-> i, old |-> Contents(vals[s]),
                           live |-> Cardinality(LiveBlocks)]

\* inspect_cow(&cow, ..); cow.to_mut().push_str(literal);
\* inspect_cow(&cow, ..); compare_memory_layout(..)
CowMutate(s, i) ==
    /\ vals[s].kind \in {"CowBorrowed", "CowOwned"}
    /\ UNCHANGED others
    /\ vals[s].len + Len(Literals[i]) <= MaxLen
    /\ \E a \in AllocTargets(heap, IF vals[s].kind = "CowBorrowed"
                                   THEN vals[s].len ELSE 0) :
         LET m == to_mut(heap, vals[s], a)
         IN  \E b \in GrowTargets(m.heap, m.val) :
               LET r == push_str(m.heap, m.val, Literals[i], b)
                   before == inspect_cow(vals[s], StackAddr(s), "Cow")
                   after == inspect_cow(r.val, StackAddr(s), "Cow")
               IN  /\ heap' = r.heap
                   /\ vals' = [vals EXCEPT ![s] = r.val]
                   /\ info1' = before
                   /\ info2' = after
                   /\ report' = compare_memory_layout(before, after)
                   /\ lastOp' = [kind |-> "cow_mutate", src |-> s, dst |-> s,
                                 arg |-> i, old |-> Contents(vals[s]),
                           live |-> Cardinality(LiveBlocks)]

\* A drop that takes the snapshots of the dropped value with it.
Drop_clearing(s) ==
    /\ vals[s].kind # "None"
    /\ heap' = drop_value(heap, vals[s])
    /\ vals' = [vals EXCEPT ![s] = NoVal]
    /\ lastOp' = [kind |-> "drop", src |-> s, dst |-> s, arg |-> 0,
                  old |-> Contents(vals[s]),
                  live |-> Cardinality(LiveBlocks)]
    /\ held' = NoInfo
    /\ UNCHANGED <<info1, info2, report, pc, tasks,
                    input, results, manipulator, out, args>>

\* A binding goes out of scope.
Drop(s) ==
    /\ vals[s].kind # "None"
    /\ UNCHANGED others
    /\ heap' = drop_value(heap, vals[s])
    /\ vals' = [vals EXCEPT ![s] = NoVal]
    /\ lastOp' = [kind |-> "drop", src |-> s, dst |-> s, arg |-> 0,
                  old |-> Contents(vals[s]),
                           live |-> Cardinality(LiveBlocks)]
    /\ UNCHANGED <<info1, info2, report>>

\* let literal: &'static str = ".."; inspect_str(literal, .., Some(r)):
\* the call site supplies a reference r, which inspect_str has no parameter
\* for.
StrLiteral(s, i, r) ==
    /\ s \in EmptySlots
    /\ UNCHANGED others
    /\ heap' = heap
    /\ vals' = [vals EXCEPT ![s] = str_literal(i)]
    /\ info1' = NoInfo
    /\ info2' = inspect_str(str_literal(i), "String literal")
    /\ report' = NoReport
    /\ lastOp' = [kind |-> "str_literal", src |-> s, dst |-> s, arg |-> i,
                  old |-> <<>>, live |-> Cardinality(LiveBlocks), ref |-> r]

\* inspect_str(&owned, ..): the view of a String's contents is captured.
StrOfString(s) ==
    /\ vals[s].kind = "String"
    /\ UNCHANGED others
    /\ info1' = inspect_string(vals[s], StackAddr(s), "String")
    /\ info2' = inspect_str(as_str(vals[s]), "Borrowed")
    /\ report' = NoReport
    /\ lastOp' = [kind |-> "str_of_string", src |-> s, dst |-> s, arg |-> 0,
                  old |-> Contents(vals[s]),
                  live |-> Cardinality(LiveBlocks)]
    /\ UNCHANGED <<heap, vals>>

\* let boxed: Box<str> = literal.into(); inspect_boxed_str(&boxed, ..)
BoxFrom(s, i) ==
    /\ s \in EmptySlots
    /\ UNCHANGED others
    /\ \E a \in AllocTargets(heap, Len(Literals[i])) :
         LET r == box_from(heap, Literals[i], a)
         IN  /\ heap' = r.heap
             /\ vals' = [vals EXCEPT ![s] = r.val]
             /\ info1' = NoInfo
             /\ info2' = inspect_boxed_str(r.val, "Boxed str")
             /\ report' = NoReport
             /\ lastOp' = [kind |-> "box_from", src |-> s, dst |-> s,
                           arg |-> i, old |-> <<>>,
                           live |-> Cardinality(LiveBlocks)]

\* A capture that consumes what it inspects.
Inspect_consuming(s) ==
    /\ vals[s].kind # "None"
    /\ UNCHANGED others
    /\ info1' = inspect(vals[s], StackAddr(s), "first capture")
    /\ info2' = inspect(vals[s], StackAddr(s), "second capture")
    /\ report' = NoReport
    /\ lastOp' = [kind |-> "inspect", src |-> s, dst |-> s, arg |-> 0,
                  old |-> Contents(vals[s]),
                  live |-> Cardinality(LiveBlocks)]
    /\ heap' = drop_value(heap, vals[s])
    /\ vals' = [vals EXCEPT ![s] = NoVal]

\* Two captures of the same binding in a row.  Every capture function
\* takes its value by shared reference and only reads it.
Inspect(s) ==
    /\ vals[s].kind # "None"
    /\ UNCHANGED others
    /\ info1' = inspect(vals[s], StackAddr(s), "first capture")
    /\ info2' = inspect(vals[s], StackAddr(s), "second capture")
    /\ report' = NoReport
    /\ lastOp' = [kind |-> "inspect", src |-> s, dst |-> s, arg |-> 0,
                  old |-> Contents(vals[s]),
                  live |-> Cardinality(LiveBlocks)]
    /\ UNCHANGED <<heap, vals>>

Next ==
    \/ \E s \in Slots, i \in LitIds : StringFrom(s, i)
    \/ \E s \in Slots, c \in ReservedCaps : WithCapacity(s, c)
    \/ \E s \in Slots, i \in NonEmptyLitIds : PushStr(s, i)
    \/ \E s \in Slots, d \in Slots : Move(s, d)
    \/ \E s \in Slots, d \in Slots : Clone(s, d)
    \/ \E s \in Slots, i \in LitIds : CowBorrowed(s, i)
    \/ \E s \in Slots, d \in Slots : CowClone(s, d)
    \/ \E s \in Slots, i \in NonEmptyLitIds : CowMutate(s, i)
    \/ \E s \in Slots : Drop(s)
    \/ \E s \in Slots, i \in LitIds, r \in StaticRefs : StrLiteral(s, i, r)
    \/ \E s \in Slots : StrOfString(s)
    \/ \E s \in Slots, i \in LitIds : BoxFrom(s, i)
    \/ \E s \in Slots : Inspect(s)

Spec == Init /\ [][Next]_vars

(***************************************************************************)
(* A snapshot kept in a local of the caller while the demonstration goes   *)
(* on with the value: info_empty of demo_capacity_and_growth and            *)
(* info_original of demo_ownership are captured, then read again after the *)
(* operations that follow.                                                 *)
(***************************************************************************)
\* let s = String::with_capacity(8); let info_empty = inspect_string(&s, ..)
\* (likewise original and info_original): the caller keeps the capture it
\* made of the value it has just created.
Hold(s) ==
    /\ vals[s].kind = "String"
    /\ lastOp.kind \in {"from", "with_capacity"}
    /\ lastOp.src = s
    /\ held = NoInfo
    /\ held' = inspect_string(vals[s], StackAddr(s), "kept")
    /\ info1' = NoInfo
    /\ info2' = inspect_string(vals[s], StackAddr(s), "kept")
    /\ report' = NoReport
    /\ lastOp' = [kind |-> "hold", src |-> s, dst |-> s, arg |-> 0,
                  old |-> Contents(vals[s]),
                  live |-> Cardinality(LiveBlocks)]
    /\ UNCHANGED <<heap, vals, pc, tasks, input, results, manipulator, out,
                 args>>

NextHeld ==
    \/ \E s \in Slots, i \in LitIds : StringFrom(s, i)
    \/ \E s \in Slots, c \in ReservedCaps : WithCapacity(s, c)
    \/ Hold("first")
    \/ \E s \in Slots, i \in NonEmptyLitIds : PushStr(s, i)
    \/ \E s \in Slots, d \in Slots : Move(s, d)
    \/ \E s \in Slots, d \in Slots : Clone(s, d)
    \/ \E s \in Slots : Drop(s)

SpecHeld == Init /\ [][NextHeld]_vars

(***************************************************************************)
(* main: the demonstrations in program order, and the tasks the fifth one  *)
(* spawns.  pc names the statement main is executing; a spawned task runs  *)
(* on the runtime's workers, in any interleaving with main and the other   *)
(* tasks, until main joins it.                                             *)
(***************************************************************************)
ProgramOrder ==
    <<"startup",
      "demo_string_types", "demo_ownership", "demo_capacity_and_growth",
      "demo_clone_on_write",
      "let_input", "spawn_task1", "spawn_task2", "spawn_task3", "announce",
      "show_operation_progress", "join", "print_results",
      "demo_transformations", "demo_unicode", "summary">>

\* The statement after p in program order.
NextPc(p) ==
    LET k == CHOOSE j \in 1..Len(ProgramOrder) : ProgramOrder[j] = p
    IN  ProgramOrder[k + 1]

\* The statements that call into the inspector (inspect_*,
\* compare_memory_layout, display_bytes).
InspectorPoints ==
    {"demo_string_types", "demo_ownership", "demo_capacity_and_growth",
     "demo_clone_on_write", "demo_transformations", "demo_unicode"}

\* The statement that spawns each task.
SpawnPoint ==
    [t \in TaskIds |-> IF t = "task1" THEN "spawn_task1"
                       ELSE IF t = "task2" THEN "spawn_task2"
                       ELSE "spawn_task3"]

\* let input = String::from("Async")
AsyncInput == <<65, 115, 121, 110, 99>>

\* format!("[{}]", input)
bracketed(s) == <<91>> \o s \o <<93>>

InitMain ==
    /\ heap = [a \in HeapAddrs |-> NoBlock]
    /\ vals = [s \in Slots |-> NoVal]
    /\ info1 = NoInfo
    /\ info2 = NoInfo
    /\ report = NoReport
    /\ lastOp = NoOp
    /\ held = NoInfo
    /\ pc = "startup"
    /\ tasks = [t \in TaskIds |-> NoTask]
    /\ input = NoInput
    /\ results = NoResults
    /\ manipulator = StringManipulator_new
    /\ out = NoOut
    /\ args = NoArgs

\* The handles in the order tokio::join! is given them, which is the order
\* the tasks were spawned in.
JoinOrder == <<"task1", "task2", "task3">>

\* The tasks that have run to completion.
Completed == {t \in TaskIds : tasks[t].state \in {"finished", "joined"}}

\* main goes on to its next statement; the statement is not the creation
\* of the input nor a spawn, and main is not waiting in the join.
Advance ==
    /\ pc \notin {"join", "summary"}
    /\ NextPc(pc) \notin {SpawnPoint[t] : t \in TaskIds} \cup {"let_input"}
    /\ pc' = NextPc(pc)
    /\ UNCHANGED <<heap, vals, info1, info2, report, lastOp, held,
                 manipulator, out, args, tasks, input, results>>

\* let input = String::from("Async");
LetInput ==
    /\ pc # "summary"
    /\ NextPc(pc) = "let_input"
    /\ pc' = NextPc(pc)
    /\ input' = AsyncInput
    /\ UNCHANGED <<heap, vals, info1, info2, report, lastOp, held,
                 manipulator, out, args, tasks, results>>

\* task::spawn(async_process_string(input.clone(), name))
Spawn(t) ==
    /\ pc # "summary"
    /\ NextPc(pc) = SpawnPoint[t]
    /\ pc' = NextPc(pc)
    /\ tasks' = [tasks EXCEPT ![t] = [state |-> "spawned",
                                       input |-> input,
                                       result |-> <<>>,
                                       completed |-> 0]]
    /\ UNCHANGED <<heap, vals, info1, info2, report, lastOp, held,
                 manipulator, out, args, input, results>>

\* async_process_string up to its await: the task logs its start and goes
\* to sleep for 10 ms.
TaskStart(t) ==
    /\ tasks[t].state = "spawned"
    /\ tasks' = [tasks EXCEPT ![t].state = "sleeping"]
    /\ UNCHANGED <<heap, vals, info1, info2, report, lastOp, held,
                 manipulator, out, args, pc, input, results>>

\* A timer that never fires for the last task.
TaskWake_lost(t) ==
    /\ tasks[t].state = "sleeping"
    /\ t # "task3"
    /\ tasks' = [tasks EXCEPT ![t].state = "woken"]
    /\ UNCHANGED <<heap, vals, info1, info2, report, lastOp, held,
                 manipulator, out, args, pc, input, results>>

\* The timer of the sleep fires.
TaskWake(t) ==
    /\ tasks[t].state = "sleeping"
    /\ tasks' = [tasks EXCEPT ![t].state = "woken"]
    /\ UNCHANGED <<heap, vals, info1, info2, report, lastOp, held,
                 manipulator, out, args, pc, input, results>>

\* async_process_string after its await: the result is formatted and the
\* task completes; completed records how many tasks have completed by then.
TaskFinish(t) ==
    /\ tasks[t].state = "woken"
    /\ tasks' = [tasks EXCEPT ![t].state = "finished",
                              ![t].result = bracketed(tasks[t].input),
                              ![t].completed = Cardinality(Completed) + 1]
    /\ UNCHANGED <<heap, vals, info1, info2, report, lastOp, held,
                 manipulator, out, args, pc, input, results>>

\* A join that returns as soon as one task has finished.
Join_any ==
    /\ pc = "join"
    /\ \E t \in TaskIds : tasks[t].state = "finished"
    /\ pc' = NextPc(pc)
    /\ tasks' = [t \in TaskIds |->
                    IF tasks[t].state = "finished"
                    THEN [tasks[t] EXCEPT !.state = "joined"]
                    ELSE tasks[t]]
    /\ results' = [i \in 1..Len(JoinOrder) |->
                      [task |-> JoinOrder[i],
                       value |-> tasks[JoinOrder[i]].result]]
    /\ UNCHANGED <<heap, vals, info1, info2, report, lastOp, held,
                 manipulator, out, args, input>>

\* A join that hands the results over in the order the tasks completed.
Join_by_completion ==
    /\ pc = "join"
    /\ \A t \in TaskIds : tasks[t].state = "finished"
    /\ pc' = NextPc(pc)
    /\ tasks' = [t \in TaskIds |-> [tasks[t] EXCEPT !.state = "joined"]]
    /\ results' = [i \in 1..Len(JoinOrder) |->
                      LET t == CHOOSE u \in TaskIds : tasks[u].completed = i
                      IN  [task |-> t, value |-> tasks[t].result]]
    /\ UNCHANGED <<heap, vals, info1, info2, report, lastOp, held,
                 manipulator, out, args, input>>

\* let results = tokio::join!(task1, task2, task3): main goes on when all
\* three tasks have finished, and takes their results, one per handle in
\* the order of the handles.
Join ==
    /\ pc = "join"
    /\ \A t \in TaskIds : tasks[t].state = "finished"
    /\ pc' = NextPc(pc)
    /\ tasks' = [t \in TaskIds |-> [tasks[t] EXCEPT !.state = "joined"]]
    /\ results' = [i \in 1..Len(JoinOrder) |->
                      [task |-> JoinOrder[i],
                       value |-> tasks[JoinOrder[i]].result]]
    /\ UNCHANGED <<heap, vals, info1, info2, report, lastOp, held,
                 manipulator, out, args, input>>

NextMain ==
    \/ Advance
    \/ LetInput
    \/ \E t \in TaskIds : Spawn(t)
    \/ \E t \in TaskIds : TaskStart(t)
    \/ \E t \in TaskIds : TaskWake(t)
    \/ \E t \in TaskIds : TaskFinish(t)
    \/ Join

SpecMain == InitMain /\ [][NextMain]_vars

\* The steps of main itself.
MainStep == Advance \/ LetInput \/ (\E t \in TaskIds : Spawn(t)) \/ Join

\* The steps of task t on the runtime.
TaskStep(t) == TaskStart(t) \/ TaskWake(t) \/ TaskFinish(t)

\* main under the scheduling of the multi-threaded runtime of #[tokio::main]:
\* main keeps running while it can take a step, every spawned task is
\* polled by a worker while it can proceed, and the timer of a sleep fires.
FairSpecMain ==
    /\ SpecMain
    /\ WF_vars(MainStep)
    /\ \A t \in TaskIds : WF_vars(TaskStep(t))

(***************************************************************************)
(* compare_memory_layout on its own: the two snapshots are any pair of     *)
(* well-formed snapshots, the one step is the call.                        *)
(***************************************************************************)
\* Largest length and capacity of the snapshots handed to the comparison.
MaxCmp == 2

\* Lengths and capacities of those snapshots: the small ones, and the two
\* ends of the upper half of the machine word.
CmpSizes == (0..MaxCmp) \cup {I64_MAX + 1, USIZE_MAX}

CmpInfos ==
    {[data_ptr |-> p, object_ptr |-> StackAddr("first"), length |-> l,
      capacity |-> c, is_heap_allocated |-> hp, description |-> "String"] :
        p \in HeapAddrs \cup {Dangling, StaticAddr(1)},
        l \in CmpSizes, c \in CmpSizes, hp \in BOOLEAN}

InitCompare ==
    /\ heap = [a \in HeapAddrs |-> NoBlock]
    /\ vals = [s \in Slots |-> NoVal]
    /\ info1 \in {i \in CmpInfos : i.length <= i.capacity}
    /\ info2 \in {i \in CmpInfos : i.length <= i.capacity}
    /\ report = NoReport
    /\ lastOp = NoOp
    /\ held = NoInfo
    /\ pc = "demos"
    /\ tasks = [t \in TaskIds |-> NoTask]
    /\ input = NoInput
    /\ results = NoResults
    /\ manipulator = StringManipulator_new
    /\ out = NoOut
    /\ args = NoArgs

Compare ==
    /\ ~report.made
    /\ UNCHANGED others
    /\ report' = compare_memory_layout(info1, info2)
    /\ lastOp' = [NoOp EXCEPT !.kind = "compare"]
    /\ UNCHANGED <<heap, vals, info1, info2>>

NextCompare == Compare

SpecCompare == InitCompare /\ [][NextCompare]_vars

(***************************************************************************)
(* Text.  A str is its UTF-8 bytes; a char is a Unicode scalar value.      *)
(* The presentation layer (display_bytes, the bar of a rendered snapshot)  *)
(* and the StringManipulator work on texts that are not the values of the  *)
(* memory demonstrations, so they have a specification of their own.       *)
(***************************************************************************)
\* Longest text the manipulator is given, in chars.
MaxChars == 2

\* The chars texts are made of: one of one byte ('R'), one of two bytes
\* (U+00DF), one of four bytes (U+1F980, the crab).
Alphabet == {82, 223, 129408}

\* char::len_utf8
len_utf8(ch) ==
    IF ch < 128 THEN 1
    ELSE IF ch < 2048 THEN 2
    ELSE IF ch < 65536 THEN 3
    ELSE 4

\* char::encode_utf8
encode_utf8(ch) ==
    IF len_utf8(ch) = 1 THEN <<ch>>
    ELSE IF len_utf8(ch) = 2
    THEN <<192 + (ch \div 64), 128 + (ch % 64)>>
    ELSE IF len_utf8(ch) = 3
    THEN <<224 + (ch \div 4096), 128 + ((ch \div 64) % 64), 128 + (ch % 64)>>
    ELSE <<240 + (ch \div 262144), 128 + ((ch \div 4096) % 64),
           128 + ((ch \div 64) % 64), 128 + (ch % 64)>>

\* Iterator<Item = char>::collect::<String>(): the chars encoded one after
\* the other.
RECURSIVE collect(_)
collect(cs) ==
    IF cs = <<>> THEN <<>> ELSE encode_utf8(Head(cs)) \o collect(Tail(cs))

\* The number of bytes of the char that starts with byte b.
utf8_char_width(b) ==
    IF b < 128 THEN 1 ELSE IF b < 224 THEN 2 ELSE IF b < 240 THEN 3 ELSE 4

\* The char encoded by the bytes bs (one whole char).
decode_utf8(bs) ==
    IF Len(bs) = 1 THEN bs[1]
    ELSE IF Len(bs) = 2 THEN (bs[1] - 192) * 64 + (bs[2] - 128)
    ELSE IF Len(bs) = 3
    THEN (bs[1] - 224) * 4096 + (bs[2] - 128) * 64 + (bs[3] - 128)
    ELSE (bs[1] - 240) * 262144 + (bs[2] - 128) * 4096
         + (bs[3] - 128) * 64 + (bs[4] - 128)

\* A reading of a str that takes every byte for a char.
RECURSIVE chars_bytewise(_)
chars_bytewise(s) ==
    IF s = <<>> THEN <<>> ELSE <<Head(s)>> \o chars_bytewise(Tail(s))

\* str::chars: the chars of s, in order.
RECURSIVE chars(_)
chars(s) ==
    IF s = <<>> THEN <<>>
    ELSE LET w == utf8_char_width(s[1])
         IN  <<decode_utf8(SubSeq(s, 1, w))>> \o chars(SubSeq(s, w + 1, Len(s)))

\* The sequences of at most n chars of the alphabet.
RECURSIVE CharSeqs(_)
CharSeqs(n) ==
    IF n = 0 THEN {<<>>}
    ELSE LET shorter == CharSeqs(n - 1)
         IN  shorter \cup {Append(cs, c) : cs \in shorter, c \in Alphabet}

\* The texts the manipulator and display_bytes are given.
Texts == {collect(cs) : cs \in CharSeqs(MaxChars)}

\* let ascii = "Rust";
Ascii == <<82, 117, 115, 116>>

\* let mixed = "Rust " followed by the crab, U+1F980.
RustCrab == collect(<<82, 117, 115, 116, 32, 129408>>)

\* The same literal as the bytes of the source file spell it: "Rust "
\* followed by U+011F, U+0178, U+00A6, U+20AC.
MixedAsStored == collect(<<82, 117, 115, 116, 32, 287, 376, 166, 8364>>)

\* The literals demo_unicode and demo_string_types hand to display_bytes.
DisplayLiterals == {Ascii, RustCrab, MixedAsStored}

\* How many chars of a multi-byte text the breakdown lists.
BREAKDOWN_CHARS == 5

\* display_bytes(s, label): the byte count and char count lines, the
\* multi-byte warning and the breakdown of the first chars.
display_bytes(s) ==
    LET cs == chars(s)
        multibyte == Len(s) # Len(cs)
        listed == IF Len(cs) < BREAKDOWN_CHARS THEN Len(cs) ELSE BREAKDOWN_CHARS
    IN  [kind |-> "display_bytes",
         s |-> s,
         byte_count |-> Len(s),
         char_count |-> Len(cs),
         multibyte |-> multibyte,
         breakdown |-> IF multibyte
                       THEN [i \in 1..listed |-> len_utf8(cs[i])]
                       ELSE <<>>,
         more |-> multibyte /\ Len(cs) > BREAKDOWN_CHARS]

\* What a call of the presentation layer or of the manipulator leaves
\* alone: the heap and bindings of the memory demonstrations, their
\* snapshots and report, and main's position, tasks, input and results.
apart == <<heap, vals, info1, info2, report, lastOp, held, pc, tasks,
           input, results, args>>

DisplayBytes ==
    \E s \in {args.s1} \cup DisplayLiterals :
        /\ out' = display_bytes(s)
        /\ UNCHANGED manipulator
        /\ UNCHANGED apart

(***************************************************************************)
(* The usage bar of a rendered snapshot.  The bar is computed in f64, and  *)
(* what an f64 can hold depends on all 64 bits of a usize, so here a       *)
(* usize is written in three limbs of 26 bits, least significant first,    *)
(* and an f64 is a significand m of 53 bits (bit 52 set) with an exponent  *)
(* e, standing for m * 2^e; zero has the significand 0.                    *)
(***************************************************************************)
\* Bits of the significand of an f64.
F64_MANTISSA_BITS == 53

\* Bits of a usize on the 64-bit targets the program is built for.
WORD_BITS == 64

\* Cells of the usage bar.
BAR_CELLS == 20

\* Largest length and capacity of the small snapshots rendered.
MaxBar == 10

\* Bits of a limb, and the base of the limbs.
LimbBits == F64_MANTISSA_BITS \div 2
Limb == 2^LimbBits

\* The natural number n < Limb as a wide number, and zero.
wide(n) == <<n, 0, 0>>
WideZero == wide(0)

\* The limbs of x with their carries passed upwards.
carried(x) ==
    LET c1 == x[1] \div Limb
        c2 == (x[2] + c1) \div Limb
    IN  <<x[1] % Limb, (x[2] + c1) % Limb, x[3] + c2>>

\* a + b
wide_add(a, b) == carried(<<a[1] + b[1], a[2] + b[2], a[3] + b[3]>>)

\* a - b, for a >= b
wide_sub(a, b) ==
    LET b1 == IF a[1] < b[1] THEN 1 ELSE 0
        b2 == IF a[2] - b1 < b[2] THEN 1 ELSE 0
    IN  <<a[1] - b[1] + b1 * Limb,
          a[2] - b1 - b[2] + b2 * Limb,
          a[3] - b2 - b[3]>>

\* a >= b
wide_ge(a, b) ==
    IF a[3] # b[3] THEN a[3] > b[3]
    ELSE IF a[2] # b[2] THEN a[2] > b[2]
    ELSE a[1] >= b[1]

\* a * k, for a small natural number k
wide_mul_small(a, k) == carried(<<a[1] * k, a[2] * k, a[3] * k>>)

\* The number of bits of the natural number n: 0 for 0.
bit_length(n) == CHOOSE k \in 0..30 : n < 2^k /\ (k = 0 \/ n >= 2^(k - 1))

\* The number of bits of the wide number a.
wide_bit_length(a) ==
    IF a[3] > 0 THEN 2 * LimbBits + bit_length(a[3])
    ELSE IF a[2] > 0 THEN LimbBits + bit_length(a[2])
    ELSE bit_length(a[1])

\* a moved up by q limbs (what leaves the third limb is gone).
limbs_up(a, q) ==
    IF q = 0 THEN a
    ELSE IF q = 1 THEN <<0, a[1], a[2]>>
    ELSE IF q = 2 THEN <<0, 0, a[1]>>
    ELSE WideZero

\* a moved down by q limbs.
limbs_down(a, q) ==
    IF q = 0 THEN a
    ELSE IF q = 1 THEN <<a[2], a[3], 0>>
    ELSE IF q = 2 THEN <<a[3], 0, 0>>
    ELSE WideZero

\* a * 2^s, for a result that fits three limbs
wide_shl(a, s) ==
    LET r == s % LimbBits
        keep == 2^(LimbBits - r)
        up == <<(a[1] % keep) * 2^r,
                (a[2] % keep) * 2^r + (a[1] \div keep),
                a[3] * 2^r + (a[2] \div keep)>>
    IN  limbs_up(up, s \div LimbBits)

\* floor(a / 2^s)
wide_shr(a, s) ==
    LET d == limbs_down(a, s \div LimbBits)
        r == s % LimbBits
        cut == 2^r
    IN  <<(d[1] \div cut) + (d[2] % cut) * 2^(LimbBits - r),
          (d[2] \div cut) + (d[3] % cut) * 2^(LimbBits - r),
          d[3] \div cut>>

\* Whether a has a bit set below bit s (bits count from 0).
bits_below(a, s) == wide_shl(wide_shr(a, s), s) # a

\* Bit s of a.
wide_bit(a, s) == wide_shr(a, s)[1] % 2

\* The f64 nearest to n * 2^e, ties to even; inexact says that n itself
\* was cut off below its last bit.
round_to_f64(n, e, inexact) ==
    LET len == wide_bit_length(n)
        k == len - F64_MANTISSA_BITS
    IN  IF len = 0 THEN [m |-> WideZero, e |-> 0]
        ELSE IF k <= 0 THEN [m |-> wide_shl(n, 0 - k), e |-> e + k]
        ELSE LET kept == wide_shr(n, k)
                 sticky == inexact \/ bits_below(n, k - 1)
                 up == wide_bit(n, k - 1) = 1 /\ (sticky \/ kept[1] % 2 = 1)
                 m1 == IF up THEN wide_add(kept, wide(1)) ELSE kept
             IN  IF wide_bit_length(m1) > F64_MANTISSA_BITS
                 THEN [m |-> wide_shr(m1, 1), e |-> e + k + 1]
                 ELSE [m |-> m1, e |-> e + k]

\* n as f64
usize_as_f64(n) == round_to_f64(n, 0, FALSE)

\* Long division of significands: i more bits of the quotient q, with the
\* remainder r, of a division by d (a quotient and a remainder that are
\* both zero stay zero).
RECURSIVE quotient_bits(_, _, _, _)
quotient_bits(q, r, d, i) ==
    IF i = 0 THEN [q |-> q, r |-> r]
    ELSE LET r2 == wide_add(r, r)
             q2 == wide_add(q, q)
             bit == IF wide_ge(r2, d) THEN 1 ELSE 0
             q3 == <<q2[1] + bit, q2[2], q2[3]>>
             r3 == IF bit = 1 THEN wide_sub(r2, d) ELSE r2
         IN  IF q3 = r3 /\ q3 = WideZero THEN [q |-> q3, r |-> r3]
             ELSE quotient_bits(q3, r3, d, i - 1)

\* a / b in f64, for b > 0: the quotient of the significands to two bits
\* more than an f64 holds, and whether anything is left, rounded.
f64_div(a, b) ==
    IF a.m = WideZero THEN [m |-> WideZero, e |-> 0]
    ELSE LET more == F64_MANTISSA_BITS + 2
             first == IF wide_ge(a.m, b.m)
                      THEN [q |-> wide(1), r |-> wide_sub(a.m, b.m)]
                      ELSE [q |-> WideZero, r |-> a.m]
             dm == quotient_bits(first.q, first.r, b.m, more)
         IN  round_to_f64(dm.q, a.e - b.e - more, dm.r # WideZero)

\* a * (k * 2^e) in f64, for a small natural number k
f64_mul_small(a, k, e) == round_to_f64(wide_mul_small(a.m, k), a.e + e, FALSE)

\* x as usize: the fraction is cut off, and a value too large for a usize
\* becomes usize::MAX.
f64_as_usize(x) ==
    IF x.m = WideZero THEN WideZero
    ELSE IF x.e + F64_MANTISSA_BITS > WORD_BITS
    THEN wide_sub(wide_shl(wide(1), WORD_BITS), wide(1))
    ELSE IF x.e >= 0 THEN wide_shl(x.m, x.e)
    ELSE IF 0 - x.e >= F64_MANTISSA_BITS THEN WideZero
    ELSE wide_shr(x.m, 0 - x.e)

\* self.capacity.max(1)
max_one(c) == IF c = WideZero THEN wide(1) ELSE c

\* ((self.length as f64 / self.capacity.max(1) as f64) * 20.0) as usize;
\* 20.0 is 5 * 2^2.
filled_blocks(length, capacity) ==
    f64_as_usize(f64_mul_small(f64_div(usize_as_f64(length),
                                       usize_as_f64(max_one(capacity))),
                               BAR_CELLS \div 4, 2))

\* impl Display for StringMemoryInfo: the bar.  20 - filled_blocks
\* overflows when more than 20 cells are filled: the debug build panics at
\* the subtraction, the release build at the repeat of the wrapped count.
fmt(info) ==
    LET filled == filled_blocks(info.length, info.capacity)
    IN  IF wide_ge(wide(BAR_CELLS), filled)
        THEN [kind |-> "fmt",
              filled_blocks |-> filled[1],
              empty_blocks |-> BAR_CELLS - filled[1]]
        ELSE [kind |-> "panic"]

\* 2^k as a wide number
Pow2(k) == wide_shl(wide(1), k)

\* Lengths and capacities rendered: the small ones, and some of those a
\* usize can hold and an f64 cannot tell apart.
BarSizes ==
    {wide(n) : n \in 0..MaxBar}
        \cup {Pow2(F64_MANTISSA_BITS),
              wide_add(Pow2(F64_MANTISSA_BITS), wide(1)),
              wide_sub(Pow2(WORD_BITS - 4), wide(1)),
              Pow2(WORD_BITS - 4),
              wide_sub(Pow2(WORD_BITS), wide(1))}

\* The well-formed snapshots handed to the renderer.
BarInfos ==
    {[data_ptr |-> <<"heap", 1>>, object_ptr |-> StackAddr("first"),
      length |-> p[1], capacity |-> p[2], is_heap_allocated |-> TRUE,
      description |-> "String"] :
        p \in {x \in BarSizes \X BarSizes : wide_ge(x[2], x[1])}}

InitRender ==
    /\ heap = [a \in HeapAddrs |-> NoBlock]
    /\ vals = [s \in Slots |-> NoVal]
    /\ info1 = NoInfo
    /\ info2 \in BarInfos
    /\ report = NoReport
    /\ lastOp = NoOp
    /\ held = NoInfo
    /\ pc = "demos"
    /\ tasks = [t \in TaskIds |-> NoTask]
    /\ input = NoInput
    /\ results = NoResults
    /\ manipulator = StringManipulator_new
    /\ out = NoOut
    /\ args = NoArgs

\* println!("{}", info)
Render ==
    /\ out = NoOut
    /\ out' = fmt(info2)
    /\ UNCHANGED manipulator
    /\ UNCHANGED apart

NextRender == Render

SpecRender == InitRender /\ [][NextRender]_vars

(***************************************************************************)
(* StringManipulator.  Every method counts the call and returns a          *)
(* TimedResult: the value and the name of the operation (the elapsed time  *)
(* it also carries is a reading of the clock).                             *)
(***************************************************************************)
\* Calls of the manipulator a run of the model makes at most.
MaxOps == 2

\* Largest count given to repeat.
MaxCount == 3

\* The heap a call of the manipulator builds its result in.
FreshHeap == [a \in HeapAddrs |-> NoBlock]

\* Iterator::rev over the chars of a str.
rev(cs) == [i \in 1..Len(cs) |-> cs[Len(cs) + 1 - i]]

\* A reversal of the bytes of s.
reverse_bytes(s) == rev(s)

\* s.chars().rev().collect::<String>()
reverse(s) == collect(rev(chars(s)))

\* char::to_uppercase for the chars of the model: an ASCII lowercase letter
\* maps to its capital, U+00DF to "SS", the others to themselves.
char_to_uppercase(ch) ==
    IF ch >= 97 /\ ch <= 122 THEN <<ch - 32>>
    ELSE IF ch = 223 THEN <<83, 83>>
    ELSE <<ch>>

\* str::to_uppercase
RECURSIVE to_uppercase_chars(_)
to_uppercase_chars(cs) ==
    IF cs = <<>> THEN <<>>
    ELSE char_to_uppercase(Head(cs)) \o to_uppercase_chars(Tail(cs))

to_upper(s) == collect(to_uppercase_chars(chars(s)))

\* A buffer reserved for one copy only.
repeat_capacity_of_one(s, count) == Len(s)

\* String::with_capacity(s.len() * count): the capacity repeat reserves.
repeat_capacity(s, count) == Len(s) * count

\* for _ in 0..count { result.push_str(s); }: the heap and the result
\* after n appends to v, and the data pointer and capacity after each; b is
\* the address the allocator answers with if an append has to grow.
RECURSIVE repeat_appends(_, _, _, _, _)
repeat_appends(h, v, s, n, b) ==
    IF n = 0
    THEN [heap |-> h, val |-> v, trace |-> <<[ptr |-> v.ptr, cap |-> v.cap]>>]
    ELSE LET before == repeat_appends(h, v, s, n - 1, b)
             r == push_str(before.heap, before.val, s,
                           IF before.val.cap > 0 /\ b = "same"
                           THEN before.val.ptr
                           ELSE CHOOSE x \in HeapAddrs :
                                    x # before.val.ptr)
         IN  [heap |-> r.heap, val |-> r.val,
              trace |-> Append(before.trace,
                               [ptr |-> r.val.ptr, cap |-> r.val.cap])]

\* StringManipulator::repeat, given where the allocator places the buffer
\* (a) and how it answers a growth (b).
repeat(s, count, a, b) ==
    LET made == alloc_string(FreshHeap, <<>>, repeat_capacity(s, count), a)
        r == repeat_appends(made.heap, made.val, s, count, b)
    IN  [val |-> r.val,
         bytes |-> BytesIn(r.heap, r.val.ptr, r.val.len),
         trace |-> r.trace]

\* An interleaving that stops with the shorter input.
RECURSIVE interleave_zip(_, _)
interleave_zip(cs1, cs2) ==
    IF cs1 = <<>> \/ cs2 = <<>> THEN <<>>
    ELSE <<Head(cs1), Head(cs2)>> \o interleave_zip(Tail(cs1), Tail(cs2))

\* The loop of interleave: one round per match on (chars1.next(),
\* chars2.next()), until both iterators are exhausted.
RECURSIVE interleave_chars(_, _)
interleave_chars(cs1, cs2) ==
    IF cs1 # <<>> /\ cs2 # <<>>
    THEN <<Head(cs1), Head(cs2)>> \o interleave_chars(Tail(cs1), Tail(cs2))
    ELSE IF cs1 # <<>>
    THEN <<Head(cs1)>> \o interleave_chars(Tail(cs1), cs2)
    ELSE IF cs2 # <<>>
    THEN <<Head(cs2)>> \o interleave_chars(cs1, Tail(cs2))
    ELSE <<>>

\* StringManipulator::interleave: the chars pushed onto a String::new().
interleave(s1, s2) == collect(interleave_chars(chars(s1), chars(s2)))

\* self.operations_count += 1
counted(m) == [m EXCEPT !.operations_count = m.operations_count + 1]

\* manipulator.reverse(s)
Reverse ==
    \E s \in {args.s1} :
        /\ manipulator.operations_count < MaxOps
        /\ manipulator' = counted(manipulator)
        /\ out' = [kind |-> "reverse", operation |-> "reverse", s |-> s,
                   value |-> reverse(s)]
        /\ UNCHANGED apart

\* A to_upper that does not count the call.
ToUpper_uncounted ==
    \E s \in {args.s1} :
        /\ manipulator.operations_count < MaxOps
        /\ manipulator' = manipulator
        /\ out' = [kind |-> "to_upper", operation |-> "to_upper", s |-> s,
                   value |-> to_upper(s)]
        /\ UNCHANGED apart

\* manipulator.to_upper(s)
ToUpper ==
    \E s \in {args.s1} :
        /\ manipulator.operations_count < MaxOps
        /\ manipulator' = counted(manipulator)
        /\ out' = [kind |-> "to_upper", operation |-> "to_upper", s |-> s,
                   value |-> to_upper(s)]
        /\ UNCHANGED apart

\* manipulator.repeat(s, count)
Repeat ==
    \E s \in {args.s1}, count \in 0..MaxCount :
      \E a \in AllocTargets(FreshHeap, repeat_capacity(s, count)),
         b \in {"same", "moved"} :
        /\ manipulator.operations_count < MaxOps
        /\ manipulator' = counted(manipulator)
        /\ out' = [kind |-> "repeat", operation |-> "repeat", s |-> s,
                   count |-> count, value |-> repeat(s, count, a, b)]
        /\ UNCHANGED apart

\* manipulator.interleave(s1, s2)
Interleave ==
    \E s1 \in {args.s1}, s2 \in {args.s2} :
        /\ manipulator.operations_count < MaxOps
        /\ manipulator' = counted(manipulator)
        /\ out' = [kind |-> "interleave", operation |-> "interleave",
                   s1 |-> s1, s2 |-> s2, value |-> interleave(s1, s2)]
        /\ UNCHANGED apart

NextText ==
    \/ DisplayBytes
    \/ Reverse
    \/ ToUpper
    \/ Repeat
    \/ Interleave

\* The manipulator has been constructed and the two texts of the calls to
\* come are chosen; nothing has been rendered.
InitText ==
    /\ heap = [a \in HeapAddrs |-> NoBlock]
    /\ vals = [s \in Slots |-> NoVal]
    /\ info1 = NoInfo
    /\ info2 = NoInfo
    /\ report = NoReport
    /\ lastOp = NoOp
    /\ held = NoInfo
    /\ pc = "demos"
    /\ tasks = [t \in TaskIds |-> NoTask]
    /\ input = NoInput
    /\ results = NoResults
    /\ manipulator = StringManipulator_new
    /\ out = NoOut
    /\ args \in [s1 : Texts, s2 : Texts]

SpecText == InitText /\ [][NextText]_vars

(***************************************************************************)
(* The three facts of a comparison and the classification the              *)
(* specification derives from them.                                        *)
(***************************************************************************)
LocationChanged == info1.data_ptr # info2.data_ptr
CapacityChanged == info1.capacity # info2.capacity
LengthChanged == info1.length # info2.length

\* The classification of section 4.2, in priority order.
PriorityClassification ==
    IF LocationChanged THEN "relocated"
    ELSE IF CapacityChanged THEN "contradiction"
    ELSE IF LengthChanged THEN "in-place mutation"
    ELSE "unchanged"

\* The classification the printed verdict line stands for.
ReportedClassification ==
    IF report.verdict = MovedVerdict THEN "relocated"
    ELSE IF report.verdict = InPlaceVerdict THEN "in-place mutation"
    ELSE report.verdict

C2_IndependentBooleans ==
    report.made =>
        /\ (report.pointer = "MOVED") <=> (info1.data_ptr # info2.data_ptr)
        /\ (report.capacity = "CHANGED") <=> (info1.capacity # info2.capacity)
        /\ (report.length = "CHANGED") <=> (info1.length # info2.length)

\* A compared pair whose buffer moved while capacity and length stayed.
C2_Witness ==
    /\ report.made
    /\ report.pointer = "MOVED"
    /\ report.capacity = "UNCHANGED"
    /\ report.length = "UNCHANGED"
    /\ info1.capacity = info2.capacity
    /\ info1.length = info2.length

\* C3 as stated: a pair whose data location is unchanged but whose
\* capacity differs is not reported as a valid in-place result.
C3_ContradictionIsDefect ==
    (report.made /\ ~LocationChanged /\ CapacityChanged) =>
        report.verdict # InPlaceVerdict

(***************************************************************************)
(* The values across the operations of the demonstrations.                 *)
(***************************************************************************)
Appended == Literals[lastOp.arg]
AppendFits == info1.length + Len(Appended) <= info1.capacity

\* C4 as stated: across an append to an owned-growable value the two
\* snapshots never show a changed capacity with an unchanged data location.
C4_CapacityChangeMovesBuffer ==
    (lastOp.kind = "push_str") =>
        ~(report.capacity = "CHANGED" /\ report.pointer = "UNCHANGED")

\* C5: an append to an owned-growable value whose total length stays within
\* the capacity leaves the data location and the capacity as they were and
\* changes the length.
C5_WithinCapacityInPlace ==
    (lastOp.kind = "push_str" /\ AppendFits) =>
        /\ report.pointer = "UNCHANGED"
        /\ report.capacity = "UNCHANGED"
        /\ report.length = "CHANGED"
        /\ info2.data_ptr = info1.data_ptr
        /\ info2.capacity = info1.capacity
        /\ info2.length = info1.length + Len(Appended)

\* Capacity 8 reserved, "Rust" appended: {len=0,cap=8} -> {len=4,cap=8}.
C5_Witness ==
    /\ lastOp.kind = "push_str"
    /\ Appended = <<82, 117, 115, 116>>
    /\ info1.length = 0 /\ info1.capacity = 8
    /\ info2.length = 4 /\ info2.capacity = 8
    /\ report.pointer = "UNCHANGED"

\* C6 as stated: an append whose total length exceeds the capacity moves
\* the buffer and changes the capacity, the new capacity is larger than the
\* old one and holds the new length, and the bytes stored before are kept.
C6_ExceedingCapacityRelocates ==
    (lastOp.kind = "push_str" /\ ~AppendFits) =>
        /\ report.pointer = "MOVED"
        /\ report.capacity = "CHANGED"
        /\ info2.capacity > info1.capacity
        /\ info2.capacity >= info2.length
        /\ info2.length = info1.length + Len(Appended)
        /\ Contents(vals[lastOp.src]) = lastOp.old \o Appended

OriginalAgain ==
    inspect_string(vals[lastOp.src], StackAddr(lastOp.src), "String")

\* C8 as stated: the clone of every owned-growable value, an empty one
\* included, lives at another data location and has the same length, and
\* the snapshot of the original is the same after the clone as before.
C8_CloneRelocatesAlways ==
    (lastOp.kind = "clone") =>
        /\ report.pointer = "MOVED"
        /\ info2.length = info1.length
        /\ OriginalAgain = info1

\* C8 as amended: the clone of an owned-growable value that has a buffer
\* (capacity > 0, so every non-empty value and every empty one with
\* reserved capacity) lives at another data location; the clone of a value
\* without a buffer (capacity 0) reports the same data location, since
\* neither has an allocation.  In both cases the lengths and the contents
\* are equal and the snapshot of the original is the same after the clone
\* as before.
C8_CloneRelocatesAllocated ==
    (lastOp.kind = "clone") =>
        /\ (info1.capacity > 0) => report.pointer = "MOVED"
        /\ (info1.capacity = 0) => report.pointer = "UNCHANGED"
        /\ info2.length = info1.length
        /\ report.length = "UNCHANGED"
        /\ Contents(vals[lastOp.dst]) = lastOp.old
        /\ OriginalAgain = info1

\* An empty value with reserved capacity has been cloned: the clone has no
\* buffer, the original keeps its own.
C8_Witness ==
    /\ lastOp.kind = "clone"
    /\ info1.length = 0 /\ info1.capacity > 0
    /\ report.pointer = "MOVED"
    /\ OriginalAgain = info1

\* C9: a mutation of a borrowed copy-on-write wrapper makes it owned: the
\* snapshot after it reports heap storage and the owned state, and its data
\* location differs from the one of the borrowed snapshot before.
C9_CowMutationTakesOwnership ==
    (lastOp.kind = "cow_mutate" /\ info1.description = "Cow: Borrowed") =>
        /\ vals[lastOp.src].kind = "CowOwned"
        /\ info2.is_heap_allocated
        /\ info2.description = "Cow: Owned"
        /\ info2.data_ptr # info1.data_ptr
        /\ report.pointer = "MOVED"
        /\ info2.data_ptr \in LiveBlocks

\* A borrowed wrapper has been mutated and is reported owned.
C9_Witness ==
    /\ lastOp.kind = "cow_mutate"
    /\ info1.description = "Cow: Borrowed"
    /\ ~info1.is_heap_allocated
    /\ info2.description = "Cow: Owned"
    /\ info2.length = info1.length + Len(Appended)

\* C10: a copy-on-write wrapper stays borrowed until it is mutated.  A
\* borrowed wrapper leaves the borrowed state only by a mutation of that
\* wrapper (or by being dropped); cloning a borrowed wrapper leaves the heap
\* as it was, and the clone is borrowed, is reported borrowed and has the
\* data location of the view the original wraps.
C10_BorrowedUntilMutated ==
    [][/\ \A s \in Slots :
            (vals[s].kind = "CowBorrowed" /\ vals'[s].kind # "CowBorrowed") =>
                \/ lastOp'.kind = "cow_mutate" /\ lastOp'.src = s
                \/ lastOp'.kind = "drop" /\ lastOp'.src = s
       /\ (lastOp'.kind = "cow_clone" /\ vals[lastOp'.src].kind = "CowBorrowed") =>
            /\ heap' = heap
            /\ vals'[lastOp'.dst].kind = "CowBorrowed"
            /\ ~info2'.is_heap_allocated
            /\ info2'.description = "Cow: Borrowed"
            /\ info2'.data_ptr = vals[lastOp'.src].ptr
            /\ info2'.data_ptr = info1'.data_ptr
            /\ report'.pointer = "UNCHANGED"]_vars

\* A borrowed wrapper that is itself a clone has been cloned again, with
\* no block allocated.
C10_Witness ==
    /\ lastOp.kind = "cow_clone"
    /\ lastOp.src = "second"
    /\ info1.description = "Cow: Borrowed"
    /\ info2.description = "Cow: Borrowed"
    /\ info2.data_ptr = info1.data_ptr
    /\ LiveBlocks = {}

(***************************************************************************)
(* Captures of every kind of value.                                        *)
(***************************************************************************)
\* The snapshot a capture of the value bound to s yields now.
SnapshotOf(s) == inspect(vals[s], StackAddr(s), "capture")
Bound == {s \in Slots : vals[s].kind # "None"}
NoSlack == {"Str", "CowBorrowed", "BoxStr"}

\* C11: whatever operations have run (creation with reserved capacity,
\* append within or beyond capacity, move, clone, copy-on-write conversion),
\* every snapshot the four capture functions produce has length <= capacity:
\* the snapshots of the last step and a capture of any live value.
C11_LengthWithinCapacity ==
    /\ info1.length <= info1.capacity
    /\ info2.length <= info2.capacity
    /\ \A s \in Bound : SnapshotOf(s).length <= SnapshotOf(s).capacity

\* An append beyond the capacity of an exactly sized String has been
\* captured: the buffer grew to more than the new length.
C11_Witness ==
    /\ lastOp.kind = "push_str"
    /\ info1.length = info1.capacity
    /\ info1.length > 0
    /\ info2.length = info1.length + Len(Appended)
    /\ info2.length < info2.capacity
    /\ info2.capacity < 2 * info2.length

\* C12: a snapshot of a representation without growth slack has
\* capacity = length: every view, every borrowed copy-on-write wrapper and
\* every boxed str; a boxed str is classified heap storage as well.
C12_NoSlackCapacityIsLength ==
    /\ \A s \in Bound :
          /\ vals[s].kind \in NoSlack =>
                SnapshotOf(s).capacity = SnapshotOf(s).length
          /\ vals[s].kind = "BoxStr" => SnapshotOf(s).is_heap_allocated
    /\ lastOp.kind \in {"str_literal", "str_of_string", "box_from",
                        "cow_borrowed"} =>
          /\ info2.capacity = info2.length
          /\ info2.length = Len(Contents(vals[lastOp.dst]))
    /\ lastOp.kind = "box_from" => info2.is_heap_allocated

\* A boxed str of a non-empty literal has been captured while a view is
\* bound next to it.
C12_Witness ==
    /\ lastOp.kind = "box_from"
    /\ info2.length > 0
    /\ info2.capacity = info2.length
    /\ info2.is_heap_allocated
    /\ info2.data_ptr \in LiveBlocks
    /\ \E s \in Bound : vals[s].kind = "Str"

\* C13 as stated: a view snapshot is classified static exactly when a static
\* reference is supplied and the data address of the view is the address of
\* the reference; a literal inspected with itself as the reference is
\* reported static.
C13_StaticIffReferenceMatches ==
    lastOp.kind = "str_literal" =>
        (StorageClass(info2) = "Static" <=>
            /\ lastOp.ref.kind # "None"
            /\ info2.data_ptr = lastOp.ref.ptr)

\* C14 as stated: with no static reference supplied a view is never answered
\* static, and its snapshot carries a storage class of its own, which is
\* neither static nor owned heap storage.
C14_NoReferenceIsBorrowedClass ==
    (\/ lastOp.kind = "str_literal" /\ lastOp.ref.kind = "None"
     \/ lastOp.kind = "str_of_string") =>
        /\ ~is_static_str(vals[lastOp.src], NoVal)
        /\ StorageClass(info2) # "Static"
        /\ StorageClass(info2) # "Heap"

\* C15: a capture of a copy-on-write wrapper reports the state the wrapper
\* is in.  Borrowed: the address and length of the view, capacity = length,
\* not heap storage.  Owned: the address, length and capacity of the buffer
\* of its String, heap storage.  The capture reports owned exactly when the
\* step was a mutation of the wrapper or the wrapper it was taken from was
\* owned already, so a wrapper is reported owned only after a conversion by
\* mutation.
C15_CowReportsActualState ==
    [][lastOp'.kind \in {"cow_borrowed", "cow_clone", "cow_mutate"} =>
          LET w == vals'[lastOp'.dst]
          IN  /\ w.kind \in {"CowBorrowed", "CowOwned"}
              /\ info2'.data_ptr = w.ptr
              /\ info2'.length = w.len
              /\ info2'.length = Len(BytesIn(heap', w.ptr, w.len))
              /\ w.kind = "CowBorrowed" =>
                    /\ info2'.data_ptr \in {StaticAddr(i) : i \in LitIds}
                    /\ info2'.capacity = info2'.length
                    /\ ~info2'.is_heap_allocated
                    /\ info2'.description = "Cow: Borrowed"
              /\ w.kind = "CowOwned" =>
                    /\ info2'.capacity = w.cap
                    /\ w.cap > 0 => heap'[w.ptr].size = info2'.capacity
                    /\ info2'.is_heap_allocated
                    /\ info2'.description = "Cow: Owned"
              /\ (info2'.description = "Cow: Owned") <=>
                    \/ lastOp'.kind = "cow_mutate"
                    \/ vals[lastOp'.src].kind = "CowOwned"]_vars

\* An owned wrapper with slack has been cloned: both captures report owned,
\* the clone with a buffer of exactly its length.
C15_Witness ==
    /\ lastOp.kind = "cow_clone"
    /\ info1.description = "Cow: Owned"
    /\ info2.description = "Cow: Owned"
    /\ info1.capacity > info1.length
    /\ info2.capacity = info2.length
    /\ info2.data_ptr \in LiveBlocks

\* C16 as stated: the "Reallocation triggered" line is printed only for a
\* pair whose data location changed and whose capacity increased; a pair
\* with the same data location never carries it.
C16_ReallocationOnlyWhenRelocated ==
    report.made =>
        /\ report.reallocation =>
              (LocationChanged /\ info2.capacity > info1.capacity)
        /\ ~LocationChanged => ~report.reallocation

C18_CaptureIsReadOnly ==
    [][lastOp'.kind \in {"inspect", "str_of_string"} =>
          LET s == lastOp'.src
          IN  /\ vals' = vals
              /\ heap' = heap
              /\ BytesIn(heap', vals'[s].ptr, vals'[s].len) = lastOp'.old
              /\ lastOp'.kind = "inspect" =>
                    /\ [info1' EXCEPT !.description = "label"] =
                           [info2' EXCEPT !.description = "label"]
                    /\ [info2' EXCEPT !.description = "label"] =
                           [inspect(vals'[s], StackAddr(s), "label")
                               EXCEPT !.description = "label"]]_vars

\* An owned copy-on-write wrapper with slack has been captured twice, next
\* to a boxed str.
C18_Witness ==
    /\ lastOp.kind = "inspect"
    /\ vals[lastOp.src].kind = "CowOwned"
    /\ info1.description = "Cow: Owned"
    /\ info1.data_ptr = info2.data_ptr
    /\ info2.capacity > info2.length
    /\ Contents(vals[lastOp.src]) = lastOp.old
    /\ \E s \in Bound : vals[s].kind = "BoxStr"

\* C19: a kept snapshot is a point-in-time record.  Once captured, its
\* fields stay what they were through every later step on the value:
\* append within capacity, append that reallocates, move, clone, drop.
C19_SnapshotKeepsCaptureValues ==
    [][held # NoInfo => held' = held]_vars

\* A snapshot was kept of an empty String with reserved capacity; the value
\* has since been appended to, grown and dropped, and the snapshot still
\* reads length 0 and the first capacity.
C19_Witness ==
    /\ lastOp.kind = "drop"
    /\ held.description = "kept"
    /\ held.object_ptr = StackAddr(lastOp.src)
    /\ held.length = 0
    /\ held.capacity \in ReservedCaps \ {0}
    /\ Len(lastOp.old) > held.capacity
    /\ Bound = {}

\* A task that has been spawned and whose result main has not yet taken.
Running == {t \in TaskIds : tasks[t].state \notin {"unspawned", "joined"}}

\* C20: in every execution of main, while a statement that calls into the
\* inspector executes, no spawned task is running: every capture and every
\* comparison happens before the first spawn or after the join, on a value
\* only main holds.
C20_InspectorRunsAlone ==
    pc \in InspectorPoints => Running = {}

\* main is in demo_transformations, which calls the inspector, after all
\* three tasks have run and been joined with their results.
C20_Witness ==
    /\ pc = "demo_transformations"
    /\ \A t \in TaskIds :
          /\ tasks[t].state = "joined"
          /\ tasks[t].result = bracketed(AsyncInput)

(***************************************************************************)
(* Bytes and chars of a text.                                              *)
(***************************************************************************)
\* C21 as the specification states it: for the input "Rust", a space and
\* one four-byte char (the crab), display_bytes reports a byte count of 10
\* and a char count of 6, and the two differ.
C21_TenBytesSixChars ==
    (out.kind = "display_bytes" /\ out.s = RustCrab) =>
        /\ out.byte_count = 10
        /\ out.char_count = 6
        /\ out.multibyte

\* C21: for the input "Rust", a space and one four-byte char (the crab),
\* display_bytes reports a byte count of 9 (five one-byte chars and one of
\* four bytes) and a char count of 6, and the two counts differ, so the
\* multi-byte warning is shown.
C21_NineBytesSixChars ==
    (out.kind = "display_bytes" /\ out.s = RustCrab) =>
        /\ out.byte_count = 9
        /\ out.char_count = 6
        /\ out.byte_count # out.char_count
        /\ out.multibyte

\* display_bytes has rendered "Rust", a space and the crab: the breakdown
\* lists five one-byte chars and says there are more.
C21_Witness ==
    /\ out.kind = "display_bytes"
    /\ out.s = RustCrab
    /\ out.breakdown = <<1, 1, 1, 1, 1>>
    /\ out.more


(***************************************************************************)
(* The asynchronous demonstration.                                         *)
(***************************************************************************)
\* The result of task t is its input between '[' and ']'.
Wrapped(t) ==
    LET r == tasks[t].result
    IN  /\ Len(r) = Len(tasks[t].input) + 2
        /\ r[1] = 91
        /\ r[Len(r)] = 93
        /\ SubSeq(r, 2, Len(r) - 1) = tasks[t].input

\* C22: in every interleaving of the three spawned tasks, each completed
\* task's result is its own input between '[' and ']' (two bytes longer
\* than the input); the join hands the results over in spawn order (task 1,
\* task 2, task 3) whatever order the tasks completed in; and the input
\* main cloned for the tasks is still "Async".
C22_ResultsInSpawnOrder ==
    /\ \A t \in Completed :
          /\ tasks[t].input = AsyncInput
          /\ Wrapped(t)
    /\ results # NoResults =>
          /\ Len(results) = 3
          /\ \A i \in 1..3 :
                /\ results[i].task = JoinOrder[i]
                /\ results[i].value = tasks[JoinOrder[i]].result
    /\ input \in {NoInput, AsyncInput}
    /\ (\E t \in TaskIds : tasks[t].state # "unspawned") => input = AsyncInput

\* The join has returned the three results after the tasks completed in
\* the reverse of spawn order: task 3 first, task 1 last.
C22_Witness ==
    /\ results # NoResults
    /\ tasks["task3"].completed = 1
    /\ tasks["task2"].completed = 2
    /\ tasks["task1"].completed = 3
    /\ results[1].value = <<91, 65, 115, 121, 110, 99, 93>>

\* C23: under fair scheduling all three spawned tasks eventually complete
\* and the join eventually returns their results; and main never is at the
\* statement that prints the results, nor holds them, before all three
\* tasks have completed.
C23_AllCompleteBeforeResults ==
    /\ <>(Completed = TaskIds)
    /\ <>(results # NoResults /\ pc = "print_results")
    /\ []((results # NoResults \/ pc = "print_results") => Completed = TaskIds)

\* main prints the results; the three tasks have been joined, task 2
\* having completed first.
C23_Witness ==
    /\ pc = "print_results"
    /\ results # NoResults
    /\ tasks["task2"].completed = 1
    /\ \A t \in TaskIds : tasks[t].state = "joined"

(***************************************************************************)
(* What a comparison reads.                                                *)
(***************************************************************************)
\* The snapshots that agree with i on data_ptr, length and capacity.
Variants(i) ==
    {[i EXCEPT !.object_ptr = o, !.is_heap_allocated = hp, !.description = d] :
        o \in {StackAddr(sl) : sl \in Slots},
        hp \in BOOLEAN,
        d \in {"String", "&str"}}

\* C24: the result of a comparison depends only on the data_ptr, length and
\* capacity of the two snapshots: a pair of snapshots that agrees with the
\* compared pair on those fields and differs in object_ptr,
\* is_heap_allocated or description yields the same three booleans and the
\* same report (arrow, verdict, capacity and length lines, deltas).
C24_ComparisonReadsThreeFields ==
    report.made =>
        \A j1 \in Variants(info1), j2 \in Variants(info2) :
            /\ ptr_changed(j1, j2) = ptr_changed(info1, info2)
            /\ capacity_changed(j1, j2) = capacity_changed(info1, info2)
            /\ length_changed(j1, j2) = length_changed(info1, info2)
            /\ compare_memory_layout(j1, j2) = report

\* Two snapshots with the same data pointer, length and capacity but
\* different storage flags have been compared and reported as unchanged.
C24_Witness ==
    /\ report.made
    /\ info1.is_heap_allocated # info2.is_heap_allocated
    /\ info1.data_ptr = info2.data_ptr
    /\ info1.length = info2.length
    /\ info1.capacity = info2.capacity
    /\ report.pointer = "UNCHANGED"
    /\ report.arrow = "in-place"

(***************************************************************************)
(* Copy-on-write: the original of a mutated clone.                         *)
(***************************************************************************)
\* C25: when a clone of a borrowed copy-on-write wrapper is mutated (the
\* clone, still sharing the view of the original, is converted to owned),
\* the original wrapper is unchanged: a snapshot of it taken after the
\* mutation reports the borrowed state with the data location and length
\* it had before, and the bytes of the view are unchanged.
C25_MutatedCloneLeavesOriginal ==
    [][\A s \in Slots, o \in Slots :
         (/\ s # o
          /\ vals[o].kind = "CowBorrowed"
          /\ vals[s] = vals[o]
          /\ vals'[s].kind = "CowOwned")
         => /\ vals'[o] = vals[o]
            /\ inspect_cow(vals'[o], StackAddr(o), "Cow")
                 = inspect_cow(vals[o], StackAddr(o), "Cow")
            /\ ~inspect_cow(vals'[o], StackAddr(o), "Cow").is_heap_allocated
            /\ BytesIn(heap', vals'[o].ptr, vals'[o].len)
                 = BytesIn(heap, vals[o].ptr, vals[o].len)]_vars

\* The clone of a borrowed wrapper has just been mutated: it was borrowed
\* at the location of the original and is owned now, with other contents;
\* the original is borrowed and holds what the clone held before.
C25_Witness ==
    /\ lastOp.kind = "cow_mutate"
    /\ lastOp.src = "second"
    /\ vals["second"].kind = "CowOwned"
    /\ vals["first"].kind = "CowBorrowed"
    /\ info1.data_ptr = vals["first"].ptr
    /\ ~info1.is_heap_allocated
    /\ lastOp.old = Contents(vals["first"])
    /\ Len(lastOp.old) > 0
    /\ Contents(vals["second"]) # lastOp.old

(***************************************************************************)
(* The StringManipulator.                                                  *)
(***************************************************************************)
\* The operations of the manipulator.
ManipulatorCalls == {"reverse", "to_upper", "repeat", "interleave"}

\* C26: operations_count starts at 0; every call of reverse, to_upper,
\* repeat or interleave increments it by exactly one, and no other step
\* changes it, so it equals the number of calls made.
C26_CountsEveryCall ==
    /\ manipulator.operations_count = 0
    /\ [][IF out'.kind \in ManipulatorCalls
          THEN manipulator'.operations_count
                 = manipulator.operations_count + 1
          ELSE manipulator'.operations_count
                 = manipulator.operations_count]_vars

\* Two calls have been made, the second an interleave, and the counter
\* reads 2.
C26_Witness ==
    /\ manipulator.operations_count = 2
    /\ out.kind = "interleave"
    /\ Len(out.value) > 0

\* C27: repeat(s, count) returns a string of exactly len(s) * count bytes
\* (empty when count = 0 or s is empty) that consists of count copies of s;
\* the buffer is reserved with that capacity, and no append reallocates:
\* the data location and the capacity after each of the count appends are
\* those of the reserved buffer.
C27_RepeatFillsReservedBuffer ==
    out.kind = "repeat" =>
        LET n == Len(out.s)
            r == out.value
        IN  /\ Len(r.bytes) = n * out.count
            /\ r.val.len = n * out.count
            /\ (out.count = 0 \/ out.s = <<>>) => r.bytes = <<>>
            /\ \A k \in 0..(out.count - 1) :
                  SubSeq(r.bytes, k * n + 1, (k + 1) * n) = out.s
            /\ Len(r.trace) = out.count + 1
            /\ \A i \in 1..Len(r.trace) :
                  /\ r.trace[i].ptr = r.trace[1].ptr
                  /\ r.trace[i].cap = n * out.count
            /\ r.val.ptr = r.trace[1].ptr
            /\ r.val.cap = n * out.count

\* repeat has built three copies of a text with a four-byte char in a
\* heap buffer reserved for exactly that many bytes.
C27_Witness ==
    /\ out.kind = "repeat"
    /\ out.count = 3
    /\ Len(out.s) >= 4
    /\ out.value.val.ptr \in HeapAddrs
    /\ out.value.val.cap = 3 * Len(out.s)
    /\ out.value.val.len = out.value.val.cap

\* C28: reverse works on chars, not bytes: the result has as many bytes
\* and as many chars as the input, it is the encoding of the input's chars
\* in reverse order (its i-th char is the input's (n-1-i)-th char), and
\* reversing the result gives the input back.
C28_ReverseByChars ==
    out.kind = "reverse" =>
        LET a == chars(out.s)
            r == chars(out.value)
            n == Len(a)
        IN  /\ Len(out.value) = Len(out.s)
            /\ out.value = collect([i \in 1..n |-> a[n + 1 - i]])
            /\ Len(r) = n
            /\ \A i \in 0..(n - 1) : r[i + 1] = a[(n - 1 - i) + 1]
            /\ reverse(out.value) = out.s

\* reverse has turned 'R' followed by the four-byte crab into the crab
\* followed by 'R': the bytes of the crab keep their order.
C28_Witness ==
    /\ out.kind = "reverse"
    /\ out.s = <<82, 240, 159, 166, 128>>
    /\ out.value = <<240, 159, 166, 128, 82>>

\* C29: interleave(s1, s2) returns (the loop has ended) a string of
\* chars(s1) + chars(s2) chars: for i below the smaller of the two char
\* counts, positions 2i and 2i+1 hold the i-th char of s1 and of s2; then
\* come the remaining chars of the longer input, in order.
C29_InterleaveAlternates ==
    out.kind = "interleave" =>
        LET a == chars(out.s1)
            b == chars(out.s2)
            r == chars(out.value)
            m == IF Len(a) < Len(b) THEN Len(a) ELSE Len(b)
            longer == IF Len(a) > Len(b) THEN a ELSE b
        IN  /\ Len(r) = Len(a) + Len(b)
            /\ \A i \in 0..(m - 1) :
                  /\ r[2 * i + 1] = a[i + 1]
                  /\ r[2 * i + 2] = b[i + 1]
            /\ SubSeq(r, 2 * m + 1, Len(r)) = SubSeq(longer, m + 1, Len(longer))

\* interleave has merged a two-char text with a one-char text of another
\* width: the second char of the longer input follows the first pair.
C29_Witness ==
    /\ out.kind = "interleave"
    /\ out.s1 = collect(<<82, 223>>)
    /\ out.s2 = collect(<<129408>>)
    /\ chars(out.value) = <<82, 129408, 223>>

(***************************************************************************)
(* The usage bar.                                                          *)
(***************************************************************************)
\* floor(20 * length / max(capacity, 1)) in exact arithmetic, for
\* length <= capacity: the largest k with k * max(capacity, 1) <=
\* 20 * length.
ExactCells(info) ==
    CHOOSE k \in 0..BAR_CELLS :
        /\ wide_ge(wide_mul_small(info.length, BAR_CELLS),
                   wide_mul_small(max_one(info.capacity), k))
        /\ \/ k = BAR_CELLS
           \/ ~wide_ge(wide_mul_small(info.length, BAR_CELLS),
                       wide_mul_small(max_one(info.capacity), k + 1))

C30_FullBarBelowCapacity ==
    /\ out.kind = "fmt"
    /\ info2.length = Pow2(F64_MANTISSA_BITS)
    /\ info2.capacity = wide_add(Pow2(F64_MANTISSA_BITS), wide(1))
    /\ out.filled_blocks = BAR_CELLS
    /\ out.empty_blocks = 0

TypeOK ==
    /\ \A a \in HeapAddrs : heap[a].used => Len(heap[a].data) <= heap[a].size
    /\ \A s \in Slots : vals[s].kind \in {"None", "String", "CowBorrowed",
                                            "CowOwned", "Str", "BoxStr"}

====
